---- MODULE Spec2Model ----
(***************************************************************************)
(* Model of the Thermostat class of src/thermostat.py: configuration       *)
(* setters, mode and state setters, temperature ingestion with the bounded *)
(* history, and the relay decision logic.                                  *)
(*                                                                         *)
(* Temperatures and setpoints are integers.  Python's None is the value    *)
(* None below; Python truthiness (None and 0 are both false) is Truthy.    *)
(* Every public call is one action; a call that raises records the         *)
(* exception in err and leaves the object as the code leaves it.           *)
(***************************************************************************)
EXTENDS Integers, Sequences, FiniteSets, TLC

\* ---- program constants (class attributes) ----
SETPOINT_MAX == 100
SETPOINT_MIN == 0
CALIBRATION_MAX == 5
CALIBRATION_MIN == -5
DIFFERENTIAL_MAX == 5
DIFFERENTIAL_MIN == 0
MODE_SINGLE == "single"
MODE_DUAL == "dual"
MODE_HEAT == "heat"
MODE_COOL == "cool"
STATE_OFF == "off"
STATE_ON == "on"

\* The smallest queue_len and window_len __init__ accepts.
MIN_QUEUE_LEN == 1
MIN_WINDOW_LEN == 1

\* Python's None, as a number no setpoint or temperature of the model takes.
None == -1000

\* ---- bounds of the model ----
MaxSetpoint == 2
MaxDifferential == 1
MaxCalibration == 1
MaxTemp == 2
MaxQueueLen == 2
MaxWindowLen == 2

\* Arguments the calls are tried with: in-range values up to the bound, and
\* one value beyond each end of the legal range.  A setpoint is tried with the
\* one value the truth tests of the code take for unset (0) and one they do
\* not.
SetpointInputs == {SETPOINT_MIN - 1, SETPOINT_MIN, MaxSetpoint, SETPOINT_MAX + 1}
DifferentialInputs == (DIFFERENTIAL_MIN - 1)..MaxDifferential \cup {DIFFERENTIAL_MAX + 1}
CalibrationInputs == {CALIBRATION_MIN - 1, CALIBRATION_MAX + 1} \cup 0..MaxCalibration
TempInputs == (SETPOINT_MIN - 1)..MaxTemp

VARIABLES
    setpoint,        \* self._setpoint
    cool_setpoint,   \* self._cool_setpoint
    heat_setpoint,   \* self._heat_setpoint
    differential,    \* self._differential
    calibration,     \* self._calibration
    temps,           \* self._temps: sequence of TemperatureReading
    queue_len,       \* self._queue_len
    window_len,      \* self._window_len
    heating,         \* self.heating.is_set()
    cooling,         \* self.cooling.is_set()
    mode,            \* self._mode
    state,           \* self._state
    now,             \* mktime(localtime())
    last,            \* name of the most recent public call or other step
    err,             \* exception the most recent public call raised, or "none"
    before,          \* <<heating, cooling>> as they were when that call began
    returned,        \* the list a caller kept from a temp_history call
    aliased,         \* that list is the very object self._temps
    average,         \* what the caller got from avg_temp_change, as a fraction
    accepted         \* log of the calibrated values of the accepted set_temp calls

vars == <<setpoint, cool_setpoint, heat_setpoint, differential, calibration,
          temps, queue_len, window_len, heating, cooling, mode, state, now,
          last, err, before, returned, aliased, average, accepted>>

\* The fields of the object, without the record of the last call.
obj == <<setpoint, cool_setpoint, heat_setpoint, differential, calibration,
         temps, queue_len, window_len, heating, cooling, mode, state>>

config == <<setpoint, cool_setpoint, heat_setpoint, differential, calibration,
            queue_len, window_len>>

\* What the caller holds.
client == <<returned, aliased, average>>

\* ---- helpers ----

\* Python truth value of an optional number: None and 0 are false.
Truthy(x) == x # None /\ x # 0

TemperatureReading(v, ts) == [value |-> v, timestamp |-> ts]

\* current_temp of a history h
CurrentTempOf(h) == IF Len(h) > 0 THEN h[Len(h)].value ELSE None

current_temp == CurrentTempOf(temps)

online == state = STATE_ON

\* _validate_setpoint rejecting the lowest legal setpoint as well
SetpointOutOfRange_ExcludesMin(value) ==
    value <= SETPOINT_MIN \/ value > SETPOINT_MAX

\* _validate_setpoint raises for this value
SetpointOutOfRange(value) == value < SETPOINT_MIN \/ value > SETPOINT_MAX

\* _should_heat comparing against the setpoint itself, without the differential
ShouldHeat_NoDifferential(ct) ==
    IF ~Truthy(ct) \/ mode = MODE_COOL THEN FALSE
    ELSE IF mode = MODE_SINGLE
         THEN setpoint # None /\ ct < setpoint
    ELSE IF mode = MODE_DUAL \/ mode = MODE_HEAT
         THEN heat_setpoint # None /\ ct < heat_setpoint
    ELSE FALSE

\* _should_heat, for the current temperature ct
ShouldHeat(ct) ==
    IF ~Truthy(ct) \/ mode = MODE_COOL THEN FALSE
    ELSE IF mode = MODE_SINGLE
         THEN setpoint # None /\ ct < setpoint - differential
    ELSE IF mode = MODE_DUAL \/ mode = MODE_HEAT
         THEN heat_setpoint # None /\ ct < heat_setpoint - differential
    ELSE FALSE

\* _should_cool treating every mode but Single as one with a cool setpoint
ShouldCool_AnyNonSingle(ct) ==
    IF ~Truthy(ct) THEN FALSE
    ELSE IF mode = MODE_SINGLE
         THEN setpoint # None /\ ct > setpoint + differential
    ELSE cool_setpoint # None /\ ct > cool_setpoint + differential

\* _should_cool, for the current temperature ct
ShouldCool(ct) ==
    IF ~Truthy(ct) \/ mode = MODE_HEAT THEN FALSE
    ELSE IF mode = MODE_SINGLE
         THEN setpoint # None /\ ct > setpoint + differential
    ELSE IF mode = MODE_DUAL \/ mode = MODE_COOL
         THEN cool_setpoint # None /\ ct > cool_setpoint + differential
    ELSE FALSE

\* _update_relays without the ON branch: a relay that is off stays off
UpdateRelay_NeverSets(flag, should) == flag /\ should

\* _update_relays without the OFF branch: a relay that is on stays on
UpdateRelay_Latching(flag, should) == flag \/ should

\* One relay of _update_relays: flag is the Event's value before, should the
\* predicate's value; the result is the Event's value after the two ifs.
UpdateRelay(flag, should) ==
    LET f1 == IF should /\ ~flag THEN TRUE ELSE flag
    IN  IF ~should /\ f1 THEN FALSE ELSE f1

\* ---- construction ----

\* A quotient num / den; den = 0 stands for no avg_temp_change call so far.
Fraction(n, d) == [num |-> n, den |-> d]
NoAverage == Fraction(0, 0)

\* The object __init__(queue_len = ql, window_len = wl) leaves, when it does
\* not raise.
Construct(ql, wl) ==
    /\ ql > 0
    /\ wl > 0
    /\ queue_len = ql
    /\ window_len = wl
    /\ setpoint = None
    /\ cool_setpoint = None
    /\ heat_setpoint = None
    /\ differential = 1
    /\ calibration = 0
    /\ temps = <<>>
    /\ heating = FALSE
    /\ cooling = FALSE
    /\ mode = MODE_SINGLE
    /\ state = STATE_ON
    /\ now = 0
    /\ last = "init"
    /\ err = "none"
    /\ before = <<FALSE, FALSE>>
    /\ returned = <<>>
    /\ aliased = FALSE
    /\ average = NoAverage

\* The log of accepted calls: switched off, or on and empty.
NoLog == [on |-> FALSE, values |-> <<>>]
EmptyLog == [on |-> TRUE, values |-> <<>>]

\* A controller with the shortest history: the relay logic and the setters
\* read no reading but the latest.
Init == Construct(MIN_QUEUE_LEN, MIN_WINDOW_LEN) /\ accepted = NoLog

\* ---- construction of a new controller in place of the present one ----
\* The caller's t = Thermostat(ql, wl): when __init__ raises, t stays bound to
\* the controller it had; otherwise t is a new controller, and a list the
\* caller kept from the old one is no longer the history of t.

\* __init__ testing its arguments with < 0
Thermostat_AcceptsZero(ql, wl) ==
    /\ last' = "Thermostat"
    /\ before' = <<heating, cooling>>
    /\ IF ql < 0 \/ wl < 0
       THEN /\ err' = "ValueError"
            /\ UNCHANGED <<obj, aliased, accepted>>
       ELSE /\ err' = "none"
            /\ setpoint' = None
            /\ cool_setpoint' = None
            /\ heat_setpoint' = None
            /\ differential' = 1
            /\ calibration' = 0
            /\ temps' = <<>>
            /\ queue_len' = ql
            /\ window_len' = wl
            /\ heating' = FALSE
            /\ cooling' = FALSE
            /\ mode' = MODE_SINGLE
            /\ state' = STATE_ON
            /\ aliased' = FALSE
            /\ accepted' = [accepted EXCEPT !.values = <<>>]
    /\ UNCHANGED <<now, returned, average>>

Thermostat(ql, wl) ==
    /\ last' = "Thermostat"
    /\ before' = <<heating, cooling>>
    /\ IF ql <= 0 \/ wl <= 0
       THEN /\ err' = "ValueError"
            /\ UNCHANGED <<obj, aliased, accepted>>
       ELSE /\ err' = "none"
            /\ setpoint' = None
            /\ cool_setpoint' = None
            /\ heat_setpoint' = None
            /\ differential' = 1
            /\ calibration' = 0
            /\ temps' = <<>>
            /\ queue_len' = ql
            /\ window_len' = wl
            /\ heating' = FALSE
            /\ cooling' = FALSE
            /\ mode' = MODE_SINGLE
            /\ state' = STATE_ON
            /\ aliased' = FALSE
            /\ accepted' = [accepted EXCEPT !.values = <<>>]
    /\ UNCHANGED <<now, returned, average>>

\* ---- state and mode setters ----

\* set_state_online that also calls _update_relays
set_state_online_UpdatesRelays ==
    /\ state' = STATE_ON
    /\ last' = "set_state_online"
    /\ before' = <<heating, cooling>>
    /\ UNCHANGED <<client, accepted>>
    /\ err' = "none"
    /\ heating' = UpdateRelay(heating, ShouldHeat(current_temp))
    /\ cooling' = UpdateRelay(cooling, ShouldCool(current_temp))
    /\ UNCHANGED <<config, temps, mode, now>>

set_state_online ==
    /\ state' = STATE_ON
    /\ last' = "set_state_online"
    /\ before' = <<heating, cooling>>
    /\ UNCHANGED <<client, accepted>>
    /\ err' = "none"
    /\ UNCHANGED <<config, temps, heating, cooling, mode, now>>

\* set_state_offline without the two clear() calls
set_state_offline_KeepsRelays ==
    /\ state' = STATE_OFF
    /\ last' = "set_state_offline"
    /\ before' = <<heating, cooling>>
    /\ UNCHANGED <<client, accepted>>
    /\ err' = "none"
    /\ UNCHANGED <<config, temps, heating, cooling, mode, now>>

set_state_offline ==
    /\ state' = STATE_OFF
    /\ heating' = FALSE
    /\ cooling' = FALSE
    /\ last' = "set_state_offline"
    /\ before' = <<heating, cooling>>
    /\ UNCHANGED <<client, accepted>>
    /\ err' = "none"
    /\ UNCHANGED <<config, temps, mode, now>>

set_mode_single ==
    /\ mode' = MODE_SINGLE
    /\ heating' = FALSE
    /\ cooling' = FALSE
    /\ last' = "set_mode_single"
    /\ before' = <<heating, cooling>>
    /\ UNCHANGED <<client, accepted>>
    /\ err' = "none"
    /\ UNCHANGED <<config, temps, state, now>>

\* set_mode_dual without the two clear() calls
set_mode_dual_KeepsRelays ==
    /\ mode' = MODE_DUAL
    /\ last' = "set_mode_dual"
    /\ before' = <<heating, cooling>>
    /\ UNCHANGED <<client, accepted>>
    /\ err' = "none"
    /\ UNCHANGED <<config, temps, heating, cooling, state, now>>

set_mode_dual ==
    /\ mode' = MODE_DUAL
    /\ heating' = FALSE
    /\ cooling' = FALSE
    /\ last' = "set_mode_dual"
    /\ before' = <<heating, cooling>>
    /\ UNCHANGED <<client, accepted>>
    /\ err' = "none"
    /\ UNCHANGED <<config, temps, state, now>>

set_mode_heat ==
    /\ mode' = MODE_HEAT
    /\ heating' = FALSE
    /\ cooling' = FALSE
    /\ last' = "set_mode_heat"
    /\ before' = <<heating, cooling>>
    /\ UNCHANGED <<client, accepted>>
    /\ err' = "none"
    /\ UNCHANGED <<config, temps, state, now>>

set_mode_cool ==
    /\ mode' = MODE_COOL
    /\ heating' = FALSE
    /\ cooling' = FALSE
    /\ last' = "set_mode_cool"
    /\ before' = <<heating, cooling>>
    /\ UNCHANGED <<client, accepted>>
    /\ err' = "none"
    /\ UNCHANGED <<config, temps, state, now>>

\* ---- configuration setters ----
\* set_setpoint clearing both relays as the mode setters do
set_setpoint_ClearsRelays(value) ==
    /\ last' = "set_setpoint"
    /\ before' = <<heating, cooling>>
    /\ UNCHANGED <<client, accepted>>
    /\ IF SetpointOutOfRange(value)
       THEN /\ err' = "ValueError"
            /\ UNCHANGED <<setpoint, heating, cooling>>
       ELSE /\ err' = "none"
            /\ setpoint' = value
            /\ heating' = FALSE
            /\ cooling' = FALSE
    /\ UNCHANGED <<cool_setpoint, heat_setpoint, differential, calibration,
                   temps, queue_len, window_len, mode, state, now>>

set_setpoint(value) ==
    /\ last' = "set_setpoint"
    /\ before' = <<heating, cooling>>
    /\ UNCHANGED <<client, accepted>>
    /\ IF SetpointOutOfRange(value)
       THEN /\ err' = "ValueError"
            /\ UNCHANGED setpoint
       ELSE /\ err' = "none"
            /\ setpoint' = value
    /\ UNCHANGED <<cool_setpoint, heat_setpoint, differential, calibration,
                   temps, queue_len, window_len, heating, cooling, mode,
                   state, now>>

\* the guard of set_cool_setpoint's raise, after validation
CoolInvalid(value) ==
    Truthy(heat_setpoint) /\ value < heat_setpoint + differential

\* set_cool_setpoint assigning self._cool_setpoint before the comparison with
\* the heat setpoint
set_cool_setpoint_WritesFirst(value) ==
    /\ last' = "set_cool_setpoint"
    /\ before' = <<heating, cooling>>
    /\ UNCHANGED <<client, accepted>>
    /\ IF SetpointOutOfRange(value)
       THEN /\ err' = "ValueError"
            /\ UNCHANGED cool_setpoint
       ELSE /\ err' = IF CoolInvalid(value) THEN "ValueError" ELSE "none"
            /\ cool_setpoint' = value
    /\ UNCHANGED <<setpoint, heat_setpoint, differential, calibration,
                   temps, queue_len, window_len, heating, cooling, mode,
                   state, now>>

set_cool_setpoint(value) ==
    /\ last' = "set_cool_setpoint"
    /\ before' = <<heating, cooling>>
    /\ UNCHANGED <<client, accepted>>
    /\ IF SetpointOutOfRange(value) \/ CoolInvalid(value)
       THEN /\ err' = "ValueError"
            /\ UNCHANGED cool_setpoint
       ELSE /\ err' = "none"
            /\ cool_setpoint' = value
    /\ UNCHANGED <<setpoint, heat_setpoint, differential, calibration,
                   temps, queue_len, window_len, heating, cooling, mode,
                   state, now>>

\* the guard of set_heat_setpoint's raise, after validation
HeatInvalid(value) ==
    Truthy(cool_setpoint) /\ value > cool_setpoint - differential

set_heat_setpoint(value) ==
    /\ last' = "set_heat_setpoint"
    /\ before' = <<heating, cooling>>
    /\ UNCHANGED <<client, accepted>>
    /\ IF SetpointOutOfRange(value) \/ HeatInvalid(value)
       THEN /\ err' = "ValueError"
            /\ UNCHANGED heat_setpoint
       ELSE /\ err' = "none"
            /\ heat_setpoint' = value
    /\ UNCHANGED <<setpoint, cool_setpoint, differential, calibration,
                   temps, queue_len, window_len, heating, cooling, mode,
                   state, now>>

set_calibration(value) ==
    /\ last' = "set_calibration"
    /\ before' = <<heating, cooling>>
    /\ UNCHANGED <<client, accepted>>
    /\ IF value < CALIBRATION_MIN \/ value > CALIBRATION_MAX
       THEN /\ err' = "ValueError"
            /\ UNCHANGED calibration
       ELSE /\ err' = "none"
            /\ calibration' = value
    /\ UNCHANGED <<setpoint, cool_setpoint, heat_setpoint, differential,
                   temps, queue_len, window_len, heating, cooling, mode,
                   state, now>>

set_differential(value) ==
    /\ last' = "set_differential"
    /\ before' = <<heating, cooling>>
    /\ UNCHANGED <<client, accepted>>
    /\ IF value < DIFFERENTIAL_MIN \/ value > DIFFERENTIAL_MAX
       THEN /\ err' = "ValueError"
            /\ UNCHANGED differential
       ELSE /\ err' = "none"
            /\ differential' = value
    /\ UNCHANGED <<setpoint, cool_setpoint, heat_setpoint, calibration,
                   temps, queue_len, window_len, heating, cooling, mode,
                   state, now>>

\* ---- temperature ingestion ----

\* set_temp's append without the eviction
Appended_NoEviction(h, reading) == Append(h, reading)

\* set_temp's append deleting the last element of a full list, not the first
Appended_DropsNewest(h, reading) ==
    LET a == Append(h, reading)
    IN  IF Len(a) > queue_len THEN SubSeq(a, 1, Len(a) - 1) ELSE a

\* the history after set_temp's append and eviction
Appended(h, reading) ==
    LET a == Append(h, reading)
    IN  IF Len(a) > queue_len THEN Tail(a) ELSE a

\* set_temp without the online test
set_temp_NoOnlineTest(value) ==
    /\ last' = "set_temp"
    /\ before' = <<heating, cooling>>
    /\ LET calibrated_temp == value + calibration
           h == Appended(temps, TemperatureReading(calibrated_temp, now))
       IN  /\ err' = "none"
           /\ temps' = h
           /\ returned' = IF aliased THEN h ELSE returned
           /\ accepted' = IF accepted.on
                          THEN [accepted EXCEPT !.values = Append(@, calibrated_temp)]
                          ELSE accepted
           /\ heating' = UpdateRelay(heating, ShouldHeat(CurrentTempOf(h)))
           /\ cooling' = UpdateRelay(cooling, ShouldCool(CurrentTempOf(h)))
    /\ UNCHANGED <<config, mode, state, now, aliased, average>>

\* set_temp storing the raw value
set_temp_NoCalibration(value) ==
    /\ last' = "set_temp"
    /\ before' = <<heating, cooling>>
    /\ IF ~online
       THEN /\ err' = "RuntimeError"
            /\ UNCHANGED <<temps, heating, cooling, returned, accepted>>
       ELSE LET h == Appended(temps, TemperatureReading(value, now))
            IN  /\ err' = "none"
                /\ temps' = h
                /\ returned' = IF aliased THEN h ELSE returned
                /\ accepted' = IF accepted.on
                               THEN [accepted EXCEPT !.values = Append(@, value)]
                               ELSE accepted
                /\ heating' = UpdateRelay(heating, ShouldHeat(CurrentTempOf(h)))
                /\ cooling' = UpdateRelay(cooling, ShouldCool(CurrentTempOf(h)))
    /\ UNCHANGED <<config, mode, state, now, aliased, average>>

set_temp(value) ==
    /\ last' = "set_temp"
    /\ before' = <<heating, cooling>>
    /\ IF ~online
       THEN /\ err' = "RuntimeError"
            /\ UNCHANGED <<temps, heating, cooling, returned, accepted>>
       ELSE LET calibrated_temp == value + calibration
                h == Appended(temps, TemperatureReading(calibrated_temp, now))
            IN  /\ err' = "none"
                /\ temps' = h
                /\ returned' = IF aliased THEN h ELSE returned
                /\ accepted' = IF accepted.on
                               THEN [accepted EXCEPT !.values = Append(@, calibrated_temp)]
                               ELSE accepted
                /\ heating' = UpdateRelay(heating, ShouldHeat(CurrentTempOf(h)))
                /\ cooling' = UpdateRelay(cooling, ShouldCool(CurrentTempOf(h)))
    /\ UNCHANGED <<config, mode, state, now, aliased, average>>

\* ---- reading the history ----

\* the test of the comprehension excluding a reading exactly window_len old
InWindow_Strict(t) == t.timestamp > now - window_len

\* the test of temp_history's list comprehension
InWindow(t) == t.timestamp >= now - window_len

\* what temp_history returns
TempHistory(full) == IF full THEN temps ELSE SelectSeq(temps, InWindow)

temp_history(full) ==
    /\ last' = "temp_history"
    /\ err' = "none"
    /\ before' = <<heating, cooling>>
    /\ returned' = TempHistory(full)
    /\ aliased' = full
    /\ UNCHANGED <<obj, now, average, accepted>>

\* sum(recent_temps[i].value - recent_temps[i - 1].value for i in 1..len-1)
RECURSIVE TotalChange(_)
TotalChange(recent_temps) ==
    IF Len(recent_temps) < 2 THEN 0
    ELSE (recent_temps[2].value - recent_temps[1].value)
            + TotalChange(Tail(recent_temps))

\* avg_temp_change averaging over the whole history
AvgTempChange_WholeHistory ==
    IF Len(temps) < 2 THEN Fraction(0, 1)
    ELSE Fraction(TotalChange(temps), Len(temps) - 1)

\* the value of the property avg_temp_change
AvgTempChange ==
    IF Len(temps) < 2 THEN Fraction(0, 1)
    ELSE LET recent_temps == TempHistory(FALSE)
         IN  IF Len(recent_temps) < 2 THEN Fraction(0, 1)
             ELSE Fraction(TotalChange(recent_temps), Len(recent_temps) - 1)

avg_temp_change ==
    /\ last' = "avg_temp_change"
    /\ err' = "none"
    /\ before' = <<heating, cooling>>
    /\ average' = AvgTempChange
    /\ UNCHANGED <<obj, now, returned, aliased, accepted>>

\* ---- the caller changing the list it holds ----
\* returned.clear(): empties the list object the caller holds, which is
\* self._temps itself when it came from temp_history(full=True)
client_clear ==
    /\ returned # <<>>
    /\ last' = "client_clear"
    /\ err' = "none"
    /\ before' = <<heating, cooling>>
    /\ returned' = <<>>
    /\ temps' = IF aliased THEN <<>> ELSE temps
    /\ UNCHANGED <<config, heating, cooling, mode, state, now, aliased,
                   average, accepted>>

\* ---- the clock ----
\* mktime(localtime()) moves on by one second, up to the last second modelled
MaxTime == MaxWindowLen + 2

Tick ==
    /\ now < MaxTime
    /\ now' = now + 1
    /\ last' = "tick"
    /\ err' = "none"
    /\ before' = <<heating, cooling>>
    /\ UNCHANGED <<obj, client, accepted>>

\* ---- all public calls ----
Next ==
    \/ set_state_online
    \/ set_state_offline
    \/ set_mode_single
    \/ set_mode_dual
    \/ set_mode_heat
    \/ set_mode_cool
    \/ \E v \in SetpointInputs : set_setpoint(v)
    \/ \E v \in SetpointInputs : set_cool_setpoint(v)
    \/ \E v \in SetpointInputs : set_heat_setpoint(v)
    \/ \E v \in CalibrationInputs : set_calibration(v)
    \/ \E v \in DifferentialInputs : set_differential(v)
    \/ \E v \in TempInputs : set_temp(v)

Spec == Init /\ [][Next]_vars

\* ---- the configuration setters alone, tried at the ends of their ranges ----
SetpointEdges == SetpointInputs \cup {SETPOINT_MAX}
CalibrationEdges == CalibrationInputs \cup {CALIBRATION_MIN, CALIBRATION_MAX}
DifferentialEdges == DifferentialInputs \cup {DIFFERENTIAL_MAX}

NextConfig ==
    \/ \E v \in SetpointEdges : set_setpoint(v)
    \/ \E v \in SetpointEdges : set_cool_setpoint(v)
    \/ \E v \in SetpointEdges : set_heat_setpoint(v)
    \/ \E v \in CalibrationEdges : set_calibration(v)
    \/ \E v \in DifferentialEdges : set_differential(v)

SpecConfig == Init /\ [][NextConfig]_vars

\* ---- the history queue: any queue_len up to the bound, readings fed while
\* the log of accepted values has room for one more than the longest queue ----
InitQueue ==
    /\ \E q \in MIN_QUEUE_LEN..MaxQueueLen : Construct(q, MIN_WINDOW_LEN)
    /\ accepted = EmptyLog

NextQueue ==
    \/ set_state_online
    \/ set_state_offline
    \/ \E v \in CalibrationInputs : set_calibration(v)
    \/ \E v \in TempInputs :
          Len(accepted.values) <= MaxQueueLen /\ set_temp(v)

SpecQueue == InitQueue /\ [][NextQueue]_vars

\* ---- the window: any window_len up to the bound, a queue two longer than
\* the longest of SpecQueue, readings taken as the clock runs ----
InitWindow ==
    /\ \E w \in MIN_WINDOW_LEN..MaxWindowLen : Construct(MaxQueueLen + 2, w)
    /\ accepted = NoLog

\* The readings fed here: the lowest setpoint and the highest temperature.
WindowTemps == {SETPOINT_MIN, MaxTemp}

\* The caller holds no result of an earlier query.
Idle == returned = <<>> /\ ~aliased /\ average = NoAverage

\* The caller drops the result of its query.
Forget ==
    /\ ~Idle
    /\ returned' = <<>>
    /\ aliased' = FALSE
    /\ average' = NoAverage
    /\ last' = "forget"
    /\ err' = "none"
    /\ before' = <<heating, cooling>>
    /\ UNCHANGED <<obj, now, accepted>>

\* The caller makes its next call after it has dropped the result of a query.
NextWindow ==
    \/ Idle /\ Tick
    \/ \E v \in WindowTemps : Idle /\ set_temp(v)
    \/ Idle /\ temp_history(FALSE)
    \/ Idle /\ avg_temp_change
    \/ Forget

SpecWindow == InitWindow /\ [][NextWindow]_vars

\* ---- a caller that keeps the list temp_history gave it ----
InitSnapshot == Construct(MaxQueueLen, MIN_WINDOW_LEN) /\ accepted = NoLog

NextSnapshot ==
    \/ Tick
    \/ \E v \in WindowTemps : set_temp(v)
    \/ \E full \in BOOLEAN : temp_history(full)
    \/ client_clear

SpecSnapshot == InitSnapshot /\ [][NextSnapshot]_vars

\* ---- construction: a controller that has been used is replaced by a new
\* one, built with lengths from below 0 up to the bounds ----
QueueLenInputs == -1..MaxQueueLen
WindowLenInputs == -1..MaxWindowLen

NextConstruct ==
    \/ \E ql \in QueueLenInputs, wl \in WindowLenInputs : Thermostat(ql, wl)
    \/ \E v \in SetpointInputs : set_setpoint(v)
    \/ \E v \in WindowTemps : set_temp(v)
    \/ set_mode_dual
    \/ set_state_offline

SpecConstruct == Init /\ [][NextConstruct]_vars

\* ---- properties ----

\* The most recent call was a set_temp that did not raise; the calibrated
\* temperature it stored is then current_temp.
AcceptedSetTemp == last = "set_temp" /\ err = "none"

\* C1: the heating flag and the cooling flag are never both set.
C1_NeverBothRelays == ~(heating /\ cooling)

\* C2: whenever both heat_setpoint and cool_setpoint are set,
\* cool_setpoint >= heat_setpoint + differential for the current differential.
C2_SetpointSeparation ==
    (heat_setpoint # None /\ cool_setpoint # None)
        => cool_setpoint >= heat_setpoint + differential

\* C3: with heat_setpoint h already set, set_cool_setpoint(c) for c in
\* [0,100] raises if and only if c < h + differential, and when it does not
\* raise cool_setpoint becomes c.
C3_CoolFailsIffTooClose ==
    [][\A c \in SetpointInputs :
         (heat_setpoint # None /\ ~SetpointOutOfRange(c) /\ set_cool_setpoint(c))
            => /\ (err' = "ValueError") <=> (c < heat_setpoint + differential)
               /\ (err' = "none") => (cool_setpoint' = c)]_vars

\* C4: with cool_setpoint c already set, set_heat_setpoint(h) for h in
\* [0,100] raises if and only if h > c - differential, and when it does not
\* raise heat_setpoint becomes h.
C4_HeatFailsIffTooClose ==
    [][\A h \in SetpointInputs :
         (cool_setpoint # None /\ ~SetpointOutOfRange(h) /\ set_heat_setpoint(h))
            => /\ (err' = "ValueError") <=> (h > cool_setpoint - differential)
               /\ (err' = "none") => (heat_setpoint' = h)]_vars

\* C5: in Single mode with setpoint s set, after every accepted set_temp with
\* calibrated temperature t: t < s - d gives heating set and cooling not set,
\* t > s + d gives cooling set and heating not set.
C5_SingleDemand ==
    (AcceptedSetTemp /\ mode = MODE_SINGLE /\ setpoint # None)
        => /\ (current_temp < setpoint - differential) => (heating /\ ~cooling)
           /\ (current_temp > setpoint + differential) => (cooling /\ ~heating)

\* C6: in Dual mode, after every accepted set_temp with calibrated
\* temperature t: heating is set iff heat_setpoint is set and
\* t < heat_setpoint - d, cooling is set iff cool_setpoint is set and
\* t > cool_setpoint + d.
C6_DualDemand ==
    (AcceptedSetTemp /\ mode = MODE_DUAL)
        => /\ heating <=> (/\ heat_setpoint # None
                           /\ current_temp < heat_setpoint - differential)
           /\ cooling <=> (/\ cool_setpoint # None
                           /\ current_temp > cool_setpoint + differential)

\* C7 as stated: in Single mode, with heating set by the preceding accepted
\* set_temp and nothing changed since, an accepted set_temp with
\* s - d <= t < s leaves heating set; with cooling set, one with
\* s < t <= s + d leaves cooling set.
C7_LatchThroughBand ==
    [][(/\ AcceptedSetTemp /\ AcceptedSetTemp'
        /\ mode = MODE_SINGLE /\ setpoint # None)
          => /\ (/\ heating
                 /\ setpoint - differential <= current_temp'
                 /\ current_temp' < setpoint) => heating'
             /\ (/\ cooling
                 /\ setpoint < current_temp'
                 /\ current_temp' <= setpoint + differential) => cooling']_vars

\* C7 amended: there is no latch.  In Single mode with setpoint s set, an
\* accepted set_temp with s - d <= t < s made while heating is set clears
\* heating, and one with s < t <= s + d made while cooling is set clears
\* cooling.
C7_BandReleasesRelay ==
    (AcceptedSetTemp /\ mode = MODE_SINGLE /\ setpoint # None)
        => /\ (/\ before[1]
               /\ setpoint - differential <= current_temp
               /\ current_temp < setpoint) => ~heating
           /\ (/\ before[2]
               /\ setpoint < current_temp
               /\ current_temp <= setpoint + differential) => ~cooling

\* A set_temp in Single mode found heating set and stored a reading in the
\* band just below the setpoint.
C7_Witness ==
    /\ AcceptedSetTemp
    /\ mode = MODE_SINGLE /\ setpoint # None
    /\ before[1]
    /\ setpoint - differential <= current_temp
    /\ current_temp < setpoint

\* C8: after an accepted set_temp with calibrated temperature t, neither
\* flag is set when (Single, setpoint s set, s - d <= t <= s + d) or (Dual,
\* both setpoints set, heat_setpoint - d <= t <= cool_setpoint + d), d being
\* the differential at the time of the call.
C8_DeadBandIdle ==
    (/\ AcceptedSetTemp
     /\ \/ /\ mode = MODE_SINGLE /\ setpoint # None
           /\ setpoint - differential <= current_temp
           /\ current_temp <= setpoint + differential
        \/ /\ mode = MODE_DUAL
           /\ heat_setpoint # None /\ cool_setpoint # None
           /\ heat_setpoint - differential <= current_temp
           /\ current_temp <= cool_setpoint + differential)
        => (~heating /\ ~cooling)

\* A set_temp in Dual mode found heating set and stored a reading inside the
\* band between the two setpoints.
C8_Witness ==
    /\ AcceptedSetTemp
    /\ mode = MODE_DUAL
    /\ heat_setpoint # None /\ cool_setpoint # None
    /\ heat_setpoint < cool_setpoint
    /\ before[1]
    /\ heat_setpoint - differential <= current_temp
    /\ current_temp <= cool_setpoint + differential

\* C9: in Heat mode the cooling flag is not set and in Cool mode the heating
\* flag is not set.
C9_ModeExcludesOppositeRelay ==
    /\ (mode = MODE_HEAT) => ~cooling
    /\ (mode = MODE_COOL) => ~heating

\* A set_temp in Heat mode stored a reading above cool_setpoint + d.
C9_Witness ==
    /\ mode = MODE_HEAT
    /\ AcceptedSetTemp
    /\ cool_setpoint # None
    /\ Truthy(current_temp)
    /\ current_temp > cool_setpoint + differential
    /\ ~cooling

ModeCalls ==
    {"set_mode_single", "set_mode_dual", "set_mode_heat", "set_mode_cool"}

ModeOf(call) ==
    CASE call = "set_mode_single" -> MODE_SINGLE
      [] call = "set_mode_dual" -> MODE_DUAL
      [] call = "set_mode_heat" -> MODE_HEAT
      [] call = "set_mode_cool" -> MODE_COOL

\* C10: every set_mode_* call leaves both flags cleared and mode at the
\* requested value, and no call other than an accepted set_temp sets a flag
\* afterwards.
C10_ModeCallClearsRelays ==
    [][/\ (last' \in ModeCalls)
            => (mode' = ModeOf(last') /\ ~heating' /\ ~cooling')
       /\ (last' # "set_temp" \/ err' # "none")
            => ((heating' => heating) /\ (cooling' => cooling))]_vars

\* set_mode_dual was called while heating was set and the latest reading
\* still asks for heat in the new mode.
C10_Witness ==
    /\ last = "set_mode_dual"
    /\ before[1]
    /\ mode = MODE_DUAL
    /\ ShouldHeat(current_temp)
    /\ ~heating /\ ~cooling

\* C11: set_state_offline makes online false and leaves both flags not set;
\* set_state_online makes online true and changes neither flag, the mode, the
\* setpoints nor the history.
C11_StateSetters ==
    [][/\ (last' = "set_state_offline")
            => (~online' /\ ~heating' /\ ~cooling')
       /\ (last' = "set_state_online")
            => /\ online'
               /\ UNCHANGED <<heating, cooling, mode, setpoint, cool_setpoint,
                              heat_setpoint, temps>>]_vars

\* set_state_online was called on a controller whose latest reading asks for
\* heat, and heating is still not set.
C11_Witness ==
    /\ last = "set_state_online"
    /\ online
    /\ ShouldHeat(current_temp)
    /\ ~heating

\* C12: while Offline, set_temp raises and changes no field of the object.
C12_OfflineSetTempRejected ==
    [][(last' = "set_temp" /\ ~online)
            => (err' = "RuntimeError" /\ UNCHANGED obj)]_vars

\* set_temp was rejected on a controller that holds a reading.
C12_Witness ==
    /\ last = "set_temp"
    /\ err = "RuntimeError"
    /\ ~online
    /\ Len(temps) > 0

\* the legal ranges, as the class attributes give them
SetpointLegal(v) == SETPOINT_MIN <= v /\ v <= SETPOINT_MAX
CalibrationLegal(v) == CALIBRATION_MIN <= v /\ v <= CALIBRATION_MAX
DifferentialLegal(v) == DIFFERENTIAL_MIN <= v /\ v <= DIFFERENTIAL_MAX

\* C13: each setter raises for every value outside its legal range; for a
\* value inside it set_setpoint, set_calibration and set_differential succeed
\* and the field then holds the value, and so do set_cool_setpoint and
\* set_heat_setpoint while the opposite setpoint is None.  After every call
\* each set setpoint, the calibration and the differential are in range.
C13_RangeValidation ==
    [][/\ (last' = "set_setpoint")
            => \A v \in SetpointEdges : set_setpoint(v)
                  => /\ ~SetpointLegal(v) => err' = "ValueError"
                     /\ SetpointLegal(v) => (err' = "none" /\ setpoint' = v)
       /\ (last' = "set_cool_setpoint")
            => \A v \in SetpointEdges : set_cool_setpoint(v)
                  => /\ ~SetpointLegal(v) => err' = "ValueError"
                     /\ (SetpointLegal(v) /\ heat_setpoint = None)
                            => (err' = "none" /\ cool_setpoint' = v)
       /\ (last' = "set_heat_setpoint")
            => \A v \in SetpointEdges : set_heat_setpoint(v)
                  => /\ ~SetpointLegal(v) => err' = "ValueError"
                     /\ (SetpointLegal(v) /\ cool_setpoint = None)
                            => (err' = "none" /\ heat_setpoint' = v)
       /\ (last' = "set_calibration")
            => \A v \in CalibrationEdges : set_calibration(v)
                  => /\ ~CalibrationLegal(v) => err' = "ValueError"
                     /\ CalibrationLegal(v)
                            => (err' = "none" /\ calibration' = v)
       /\ (last' = "set_differential")
            => \A v \in DifferentialEdges : set_differential(v)
                  => /\ ~DifferentialLegal(v) => err' = "ValueError"
                     /\ DifferentialLegal(v)
                            => (err' = "none" /\ differential' = v)
       /\ setpoint' # None => SetpointLegal(setpoint')
       /\ cool_setpoint' # None => SetpointLegal(cool_setpoint')
       /\ heat_setpoint' # None => SetpointLegal(heat_setpoint')
       /\ CalibrationLegal(calibration')
       /\ DifferentialLegal(differential')]_vars

\* The lowest and the highest legal values were accepted: a cool setpoint of
\* SETPOINT_MAX with no heat setpoint, a setpoint of SETPOINT_MIN, the lowest
\* calibration and the widest differential.
C13_Witness ==
    /\ last = "set_cool_setpoint"
    /\ err = "none"
    /\ cool_setpoint = SETPOINT_MAX
    /\ heat_setpoint = None
    /\ setpoint = SETPOINT_MIN
    /\ calibration = CALIBRATION_MIN
    /\ differential = DIFFERENTIAL_MAX

SetterCalls ==
    {"set_setpoint", "set_cool_setpoint", "set_heat_setpoint",
     "set_calibration", "set_differential"}

\* C14: a setter call that raises leaves every field of the object as it was.
C14_SetterFailureAtomic ==
    [][(last' \in SetterCalls /\ err' = "ValueError") => UNCHANGED obj]_vars

\* set_cool_setpoint was rejected while a cool setpoint and a non-zero heat
\* setpoint were set and a reading was stored.
C14_Witness ==
    /\ last = "set_cool_setpoint"
    /\ err = "ValueError"
    /\ cool_setpoint # None
    /\ Truthy(heat_setpoint)
    /\ Len(temps) > 0

\* C15: after an accepted set_temp(v) made with calibration k, current_temp
\* is v + k; set_calibration changes no stored reading.
C15_CalibrationApplied ==
    [][/\ (last' = "set_temp" /\ online)
            => \A v \in TempInputs :
                  set_temp(v) => (current_temp' = v + calibration)
       /\ (last' = "set_calibration") => (temps' = temps)]_vars

\* A reading was accepted while the calibration was not 0.
C15_Witness ==
    /\ AcceptedSetTemp
    /\ calibration # 0
    /\ Len(temps) > 0

\* the values of the readings of a history, oldest first
Values(h) == [i \in 1..Len(h) |-> h[i].value]

Min(a, b) == IF a < b THEN a ELSE b

\* the last n elements of a sequence
LastN(s, n) == SubSeq(s, Len(s) - n + 1, Len(s))

\* C16: the history never holds more than queue_len readings; an accepted
\* set_temp puts exactly one reading at the end of the history and removes
\* at most one, the oldest.
C16_QueueBounded ==
    [][/\ Len(temps') <= queue_len'
       /\ (last' = "set_temp" /\ err' = "none")
            => /\ Len(temps') > 0
               /\ LET new == temps'[Len(temps')]
                  IN  \/ temps' = Append(temps, new)
                      \/ temps' = Tail(Append(temps, new))]_vars

\* A reading was accepted by a full queue of more than one reading.
C16_Witness ==
    /\ AcceptedSetTemp
    /\ queue_len > 1
    /\ Len(temps) = queue_len
    /\ Len(accepted.values) > queue_len

\* C17: after n accepted set_temp calls the history holds the calibrated
\* values of the last min(n, queue_len) of them, in call order; after
\* queue_len + 1 calls its first element is the second value accepted.
C17_FifoEviction ==
    accepted.on
      => /\ Values(temps) = LastN(accepted.values,
                                  Min(Len(accepted.values), queue_len))
         /\ Len(accepted.values) = queue_len + 1
              => temps[1].value = accepted.values[2]

\* queue_len + 1 readings were accepted by a queue of more than one reading,
\* the first two with different values.
C17_Witness ==
    /\ AcceptedSetTemp
    /\ queue_len > 1
    /\ Len(accepted.values) = queue_len + 1
    /\ accepted.values[1] # accepted.values[2]

\* the places in the history of the readings no older than window_len
Recent == {i \in 1..Len(temps) : temps[i].timestamp >= now - window_len}

\* r holds the readings of h at the places of I, and no others, in the order
\* they have in h
SelectedInOrder(r, h, I) ==
    /\ Len(r) = Cardinality(I)
    /\ \E f \in [1..Len(r) -> I] :
          /\ \A j, k \in 1..Len(r) : j < k => f[j] < f[k]
          /\ \A k \in 1..Len(r) : r[k] = h[f[k]]

\* C18: temp_history(full=False) returns the readings whose timestamp is at
\* least now - window_len, all of them and no others, in the order of the
\* history, and leaves the history as it was.
C18_WindowFilter ==
    [][(last' = "temp_history" /\ ~aliased')
            => /\ temps' = temps
               /\ SelectedInOrder(returned', temps, Recent)]_vars

\* The query returned two readings of different values, the older taken
\* exactly window_len ago, and left out a reading the history still holds.
C18_Witness ==
    /\ last = "temp_history"
    /\ ~aliased
    /\ Len(returned) = 2
    /\ returned[1].timestamp = now - window_len
    /\ returned[1].value # returned[2].value
    /\ Len(temps) > 2
    /\ temps[1].timestamp < now - window_len

\* C19: avg_temp_change is 0 when fewer than two readings are no older than
\* window_len; otherwise it is the newest of those readings less the oldest
\* of them, over their number less one.
C19_AverageChange ==
    (last = "avg_temp_change")
      => LET n == Cardinality(Recent)
             first == CHOOSE i \in Recent : \A j \in Recent : i <= j
             newest == CHOOSE i \in Recent : \A j \in Recent : j <= i
         IN  /\ average.den > 0
             /\ n < 2 => average.num = 0
             /\ n >= 2 => average.num * (n - 1)
                            = (temps[newest].value - temps[first].value)
                                * average.den

\* The average was taken over three readings while a fourth, too old and of
\* another value than the oldest of the three, was still in the history; it
\* is not 0.
C19_Witness ==
    /\ last = "avg_temp_change"
    /\ Len(temps) = 4
    /\ Cardinality(Recent) = 3
    /\ temps[1].value # temps[2].value
    /\ average.num # 0

\* C20: the list a temp_history call returned is not changed by a later
\* set_temp, and emptying that list does not change the history.
C20_FreshSnapshot ==
    [][/\ (last' = "set_temp") => (returned' = returned)
       /\ (last' = "client_clear") => (temps' = temps)]_vars

\* C21: construction raises when queue_len <= 0 or window_len <= 0; otherwise
\* the new controller is in mode Single and Online, with neither flag set, an
\* empty history and no current temperature, no setpoint of the three set,
\* differential 1 and calibration 0.
C21_Construction ==
    [][(last' = "Thermostat")
         => \A ql \in QueueLenInputs, wl \in WindowLenInputs :
              Thermostat(ql, wl)
                => IF ql <= 0 \/ wl <= 0
                   THEN err' = "ValueError"
                   ELSE /\ err' = "none"
                        /\ mode' = MODE_SINGLE
                        /\ online'
                        /\ ~heating' /\ ~cooling'
                        /\ temps' = <<>>
                        /\ current_temp' = None
                        /\ setpoint' = None
                        /\ cool_setpoint' = None
                        /\ heat_setpoint' = None
                        /\ differential' = 1
                        /\ calibration' = 0]_vars

\* A controller was built with the longest queue and window in place of one
\* that was cooling.
C21_Witness ==
    /\ last = "Thermostat"
    /\ err = "none"
    /\ before[2]
    /\ queue_len = MaxQueueLen
    /\ window_len = MaxWindowLen
    /\ temps = <<>>

\* C22: after an accepted set_temp each flag is the value its predicate has
\* for the mode, the setpoints, the differential and the reading just stored,
\* whatever the flags were when the call began.
C22_FlagsDerived ==
    AcceptedSetTemp
      => /\ heating = ShouldHeat(current_temp)
         /\ cooling = ShouldCool(current_temp)

\* An accepted reading turned heating off and cooling on.
C22_Witness ==
    /\ AcceptedSetTemp
    /\ before = <<TRUE, FALSE>>
    /\ ~heating
    /\ cooling

\* C23: while the controller is Offline neither flag is set.
C23_OfflineRelaysOff == ~online => (~heating /\ ~cooling)

\* A setter was accepted while Offline, the stored reading calls for heat
\* under the configuration it left, and heating is not set.
C23_Witness ==
    /\ ~online
    /\ last \in SetterCalls
    /\ err = "none"
    /\ ShouldHeat(current_temp)
    /\ ~heating

\* C24: a flag goes from not set to set only in an accepted set_temp; a
\* setter call, accepted or not, leaves both flags, the mode, the state and
\* the history as they were.
C24_FlagsSetOnlyBySetTemp ==
    [][/\ ((~heating /\ heating') \/ (~cooling /\ cooling'))
            => (last' = "set_temp" /\ err' = "none")
       /\ (last' \in SetterCalls)
            => UNCHANGED <<heating, cooling, mode, state, temps>>]_vars

\* A setter was accepted by an Online controller and left heating set though
\* the stored reading no longer calls for heat.
C24_Witness ==
    /\ online
    /\ last \in SetterCalls
    /\ err = "none"
    /\ heating
    /\ ~ShouldHeat(current_temp)

====
